---- MODULE Spec2Model ----
(***************************************************************************)
(* A model of the appointment assistant: the conversation store            *)
(* (backend/conversation_history.py), the agent tools                      *)
(* (backend/tools.py: google_calendar_operations, appointment_validator)   *)
(* and the chat endpoint (agents/schedule_ai_agent/main.py).               *)
(*                                                                         *)
(* Python's None is a value of the type of the thing it stands for:        *)
(* NoneStr for an absent string, a record with exists = FALSE for an       *)
(* absent record, so that values stay comparable.                          *)
(***************************************************************************)
EXTENDS Integers, Sequences, FiniteSets, TLC

VARIABLES
    files,           \* sessions/<md5(id)>.json: the stored record of each session
    sessions_index,  \* ConversationHistoryManager.sessions_index (sessions.json)
    clock,           \* datetime.now(), one tick per message stamped
    appended,        \* per session: the appendMessage inputs since it last had no record
    onlyAppends,     \* per session: nothing but appendMessage ran since it last had no record
    proc,            \* concurrent add_message calls: where each is, and the record it read
    acked,           \* the add_message calls that returned True, with the message each built
    toolCall,        \* the last tool call of the agent: its arguments, what it called, its result
    validated,       \* the (start_time, duration) pairs appointment_validator found valid
    bookings,        \* per ctx.deps.session_id: the 'create' calls that returned success
    schedule_agent,  \* main.py's global agent instance, None until lifespan builds one
    turn             \* the POST /chat request being served: where it is, and its response

vars == <<files, sessions_index, clock, appended, onlyAppends, proc, acked, toolCall, validated,
          bookings, schedule_agent, turn>>

storeVars == <<files, sessions_index, clock, appended, onlyAppends>>
concVars == <<proc, acked>>
toolVars == <<toolCall, validated, bookings>>
chatVars == <<schedule_agent, turn>>

----------------------------------------------------------------------------
(* Bounds and input domains *)

MaxClock == 3        \* add_message calls in one run
MaxLimit == 3        \* largest limit / message_count / search limit asked for
MaxProcs == 2        \* add_message calls in flight at once

Procs == 1..MaxProcs

SessionIds == {"s1", "s2"}

NoneStr == "None"

Roles == {"user", "assistant", "system"}

NoMeta == [exists |-> FALSE]

BookingMeta(event_id, title, client_name, client_email, service_type, start_time, duration_minutes, calendar_link) ==
    [exists |-> TRUE, event_id |-> event_id, title |-> title,
     client_name |-> client_name, client_email |-> client_email,
     service_type |-> service_type, start_time |-> start_time,
     duration_minutes |-> duration_minutes, calendar_link |-> calendar_link,
     operation |-> "create"]

\* A message content is its text as a sequence of whitespace-separated words.
Contents == { <<"ciao">>, <<"vorrei", "prenotare", "una", "visita">> }

\* what a caller hands to add_message: role, content, message_type, metadata
MsgInputs ==
    { [role |-> "user", content |-> <<"ciao">>, message_type |-> "text", metadata |-> NoMeta],
      [role |-> "user", content |-> <<"vorrei", "prenotare", "una", "visita">>,
       message_type |-> "text", metadata |-> NoMeta],
      [role |-> "assistant", content |-> <<"ciao">>, message_type |-> "text", metadata |-> NoMeta],
      [role |-> "system", content |-> <<"prenotare", "una", "visita">>,
       message_type |-> "appointment_created",
       metadata |-> [exists |-> TRUE, event_id |-> "e1", operation |-> "create"]] }

Queries == { <<"ciao">>, <<"una", "visita">> }

----------------------------------------------------------------------------
(* backend/conversation_history.py *)

NoFile == [exists |-> FALSE]
NoEntry == [exists |-> FALSE]

\* ConversationMessage(timestamp, role, content, message_type, metadata)
ConversationMessage(timestamp, in) ==
    [timestamp |-> timestamp, role |-> in.role, content |-> in.content,
     message_type |-> in.message_type, metadata |-> in.metadata]

\* ConversationSession(session_id, messages): the unit of persistence
ConversationSession(session_id, messages) ==
    [exists |-> TRUE, session_id |-> session_id, messages |-> messages]

\* get_session: the stored record, or None when the file does not exist
get_session(fs, session_id) == fs[session_id]

\* save_session: write the whole record, then the index entry with its count
save_session(st, session) ==
    [files |-> [st.files EXCEPT ![session.session_id] = session],
     index |-> [st.index EXCEPT ![session.session_id] =
                   [exists |-> TRUE, message_count |-> Len(session.messages)]]]

\* create_session: a record with no messages is saved, whatever was stored
\* under the id, and the index entry is set to message_count 0
create_session(st, session_id) ==
    LET saved == save_session(st, ConversationSession(session_id, <<>>))
    IN  [files |-> saved.files,
         index |-> [saved.index EXCEPT ![session_id] =
                       [exists |-> TRUE, message_count |-> 0]]]

\* variant: the session is created anew on every call
SessionAlwaysMissing(session) == TRUE

\* session is None: add_message creates the session first
SessionMissing(session) == ~session.exists

\* session.messages.append(message)
AppendMessage(messages, message) == Append(messages, message)

\* add_message: read the whole record, create it when missing, append, write it back
add_message(st, session_id, timestamp, in) ==
    LET session == get_session(st.files, session_id)
        st1     == IF SessionMissing(session) THEN create_session(st, session_id) ELSE st
        base    == IF SessionMissing(session) THEN ConversationSession(session_id, <<>>)
                   ELSE session
        message == ConversationMessage(timestamp, in)
    IN  save_session(st1, [base EXCEPT !.messages = AppendMessage(base.messages, message)])

\* variant: messages[-limit + 1:]
LastMessagesOffByOne(messages, limit) ==
    LET n == Len(messages)
    IN  IF limit = 1 THEN messages
        ELSE SubSeq(messages, (IF n - limit + 1 < 0 THEN 0 ELSE n - limit + 1) + 1, n)

\* messages[-limit:] for limit > 0
LastMessages(messages, limit) ==
    LET n == Len(messages)
        first == IF n - limit < 0 THEN 1 ELSE n - limit + 1
    IN  SubSeq(messages, first, n)

\* get_conversation_history(session_id, limit): limit is None when ~hasLimit;
\* "if limit:" is false for None and for 0
get_conversation_history(fs, session_id, hasLimit, limit) ==
    LET session == get_session(fs, session_id)
    IN  IF ~session.exists THEN <<>>
        ELSE IF hasLimit /\ limit # 0 THEN LastMessages(session.messages, limit)
        ELSE session.messages

\* variant: the file is unlinked, the index entry stays
delete_session_file_only(st, session_id) ==
    [files |-> [st.files EXCEPT ![session_id] = NoFile],
     index |-> st.index,
     returns |-> TRUE]

\* delete_session: unlink the file if it exists, drop the index entry; returns True
delete_session(st, session_id) ==
    [files |-> [st.files EXCEPT ![session_id] = NoFile],
     index |-> [st.index EXCEPT ![session_id] = NoEntry],
     returns |-> TRUE]

\* get_all_sessions: a copy of the index
get_all_sessions(index) == { s \in SessionIds : index[s].exists }

\* text.lower(), word by word
Lower(word) ==
    CASE word = "Anna" -> "anna"
      [] word = "Mi" -> "mi"
      [] word = "Sono" -> "sono"
      [] word = "Consulenza" -> "consulenza"
      [] OTHER -> word

LowerText(text) == [i \in 1..Len(text) |-> Lower(text[i])]

\* query in text: the words of query occur in text, adjacent and in order
Contains(text, query) ==
    \E i \in 0..Len(text) :
        /\ i + Len(query) <= Len(text)
        /\ \A j \in 1..Len(query) : text[i + j] = query[j]

\* sum(1 for word in query_words if word in text_lower)
RECURSIVE CountMatches(_, _)
CountMatches(query_words, text_lower) ==
    IF query_words = <<>> THEN 0
    ELSE (IF Contains(text_lower, <<Head(query_words)>>) THEN 1 ELSE 0)
         + CountMatches(Tail(query_words), text_lower)

\* _calculate_relevance: 1.0 for an exact match, else matches / len(query_words),
\* as the fraction <<numerator, denominator>>
calculate_relevance(text, query) ==
    LET text_lower == LowerText(text)
        query_lower == LowerText(query)
    IN  IF Contains(text_lower, query_lower) THEN <<1, 1>>
        ELSE IF query_lower = <<>> THEN <<0, 1>>
        ELSE <<CountMatches(query_lower, text_lower), Len(query_lower)>>

\* a.relevance_score > b.relevance_score
ScoreGreater(a, b) == a[1] * b[2] > b[1] * a[2]

\* results.sort(key=relevance_score, reverse=True): a stable insertion
RECURSIVE SortByScore(_)
InsertByScore(sorted, r) ==
    LET before == { i \in 1..Len(sorted) : ~ScoreGreater(r.relevance_score, sorted[i].relevance_score) }
        k == Cardinality({ i \in before : \A j \in 1..i : j \in before })
    IN  SubSeq(sorted, 1, k) \o <<r>> \o SubSeq(sorted, k + 1, Len(sorted))
SortByScore(results) ==
    IF results = <<>> THEN <<>>
    ELSE InsertByScore(SortByScore(SubSeq(results, 1, Len(results) - 1)), results[Len(results)])

RECURSIVE SearchFrom(_, _, _)
SearchFrom(messages, query, i) ==
    IF i > Len(messages) THEN <<>>
    ELSE LET message == messages[i]
             start_idx == IF i - 1 - 2 < 0 THEN 0 ELSE i - 1 - 2
             end_idx == IF Len(messages) < i - 1 + 3 THEN Len(messages) ELSE i - 1 + 3
             hit == [matching_message |-> message,
                     context |-> SubSeq(messages, start_idx + 1, end_idx),
                     relevance_score |-> calculate_relevance(message.content, query),
                     position_in_conversation |-> i - 1,
                     total_messages |-> Len(messages)]
         IN  (IF Contains(LowerText(message.content), LowerText(query)) THEN <<hit>> ELSE <<>>)
             \o SearchFrom(messages, query, i + 1)

\* search_conversations: the matching messages with their context, best first, cut to limit
search_conversations(fs, session_id, query, limit) ==
    LET session == get_session(fs, session_id)
    IN  IF ~session.exists THEN <<>>
        ELSE LET results == SortByScore(SearchFrom(session.messages, query, 1))
             IN  SubSeq(results, 1, IF limit < Len(results) THEN limit ELSE Len(results))

\* n ticks of the clock make one minute of the wall clock
TicksPerMinute == 2

\* datetime.fromisoformat(timestamp).strftime("%H:%M")
HourMinute(timestamp) == timestamp \div TicksPerMinute

RECURSIVE ContextLines(_)
ContextLines(messages) ==
    IF messages = <<>> THEN <<>>
    ELSE <<[line |-> "message", time |-> HourMinute(Head(messages).timestamp),
            role_label |-> IF Head(messages).role = "user" THEN "Utente" ELSE "Assistente",
            content |-> Head(messages).content]>>
         \o ContextLines(Tail(messages))

NoContext == <<[line |-> "Nessuna conversazione precedente."]>>

\* get_recent_context: the last message_count messages between the two markers
get_recent_context(fs, session_id, message_count) ==
    LET messages == get_conversation_history(fs, session_id, TRUE, message_count)
    IN  IF messages = <<>> THEN NoContext
        ELSE <<[line |-> "=== CONTESTO CONVERSAZIONE PRECEDENTE ==="]>>
             \o ContextLines(messages)
             \o <<[line |-> "=== FINE CONTESTO ==="]>>

\* '@' in word, '.' in word
HasAt(word) == word \in {"anna@x.it", "anna@x.it.", "anna@x"}
HasDot(word) == word \in {"anna@x.it", "anna@x.it."}

\* word.strip('.,!?')
Strip(word) == IF word = "anna@x.it." THEN "anna@x.it" ELSE word

\* word.capitalize(), word.istitle()
Capitalize(word) == IF word \in {"anna", "Anna"} THEN "Anna" ELSE word
IsTitle(word) == word \in {"Anna", "Mi", "Sono"}

\* the index of the first word of the first occurrence of sep in text, 0 if none
FirstOccurrence(text, sep) ==
    LET at == { i \in 1..Len(text) :
                  /\ i + Len(sep) - 1 <= Len(text)
                  /\ \A j \in 1..Len(sep) : text[i + j - 1] = sep[j] }
    IN  IF at = {} THEN 0 ELSE CHOOSE i \in at : \A k \in at : i <= k

\* text.split(sep)[1].strip().split(): the words between the first sep and the next
WordsAfter(text, sep) ==
    LET i == FirstOccurrence(text, sep)
        rest == SubSeq(text, i + Len(sep), Len(text))
        k == FirstOccurrence(rest, sep)
    IN  IF k = 0 THEN rest ELSE SubSeq(rest, 1, k - 1)

\* the first word holding both '@' and '.', stripped; NoneStr if there is none
EmailIn(text) ==
    LET at == { i \in 1..Len(text) : HasAt(text[i]) /\ HasDot(text[i]) }
    IN  IF at = {} THEN NoneStr ELSE Strip(text[CHOOSE i \in at : \A k \in at : i <= k])

NoFacts == [exists |-> FALSE]
RaisedFacts == [exists |-> TRUE, raised |-> TRUE]

\* variant: the count depends on when the message was stored
ExtractStepByTimestamp(info, message) ==
    [info EXCEPT !.appointment_count = @ + message.timestamp]

\* one turn of the loop over session.messages
ExtractStep(info, message) ==
    LET content == message.content
        content_lower == LowerText(content)
        withEmail ==
            IF (\E i \in 1..Len(content) : HasAt(content[i])) /\ info.user_email = NoneStr
            THEN [info EXCEPT !.user_email = EmailIn(content)]
            ELSE info
        withName ==
            IF message.role = "user" /\ withEmail.user_name = NoneStr
            THEN IF Contains(content_lower, <<"mi", "chiamo">>)
                 THEN IF FirstOccurrence(content, <<"mi", "chiamo">>) # 0
                      THEN IF WordsAfter(content, <<"mi", "chiamo">>) = <<>>
                           THEN RaisedFacts
                           ELSE [withEmail EXCEPT !.user_name =
                                    Capitalize(WordsAfter(content, <<"mi", "chiamo">>)[1])]
                      ELSE withEmail
                 ELSE IF Contains(content_lower, <<"sono">>)
                 THEN IF FirstOccurrence(content, <<"sono">>) # 0
                      THEN IF WordsAfter(content, <<"sono">>) = <<>>
                           THEN RaisedFacts
                           ELSE IF IsTitle(WordsAfter(content, <<"sono">>)[1])
                           THEN [withEmail EXCEPT !.user_name = WordsAfter(content, <<"sono">>)[1]]
                           ELSE withEmail
                      ELSE withEmail
                 ELSE withEmail
            ELSE withEmail
    IN  IF withName.raised THEN RaisedFacts
        ELSE IF message.message_type = "appointment_created"
        THEN [withName EXCEPT !.appointment_count = @ + 1,
                              !.last_appointment =
                                  IF message.metadata.exists THEN message.metadata ELSE @]
        ELSE withName

RECURSIVE ExtractLoop(_, _)
ExtractLoop(info, messages) ==
    IF info.raised \/ messages = <<>> THEN info
    ELSE ExtractLoop(ExtractStep(info, Head(messages)), Tail(messages))

\* extract_appointment_info: the facts are recomputed from the stored messages
extract_appointment_info(fs, session_id) ==
    LET session == get_session(fs, session_id)
    IN  IF ~session.exists THEN NoFacts
        ELSE ExtractLoop([exists |-> TRUE, raised |-> FALSE, user_name |-> NoneStr,
                          user_email |-> NoneStr, last_appointment |-> NoMeta,
                          appointment_count |-> 0],
                         session.messages)

store == [files |-> files, index |-> sessions_index]

----------------------------------------------------------------------------
(* backend/tools.py: appointment_validator *)

\* start_time: an ISO string that datetime.fromisoformat parses to a weekday
\* (Monday = 0), an hour and a minute, or one it raises on. The seconds are left
\* out: dt.replace(hour=h, minute=0) keeps them on both sides of the comparison.
Weekdays == {0, 4, 5, 6}
Hours == {8, 9, 17, 18, 19}
Minutes == {0, 30}
NoStart == [given |-> FALSE, iso |-> FALSE]
BadStart == [given |-> TRUE, iso |-> FALSE]
StartTimes ==
    { [given |-> TRUE, iso |-> TRUE, weekday |-> w, hour |-> h, minute |-> m] :
        w \in Weekdays, h \in Hours, m \in Minutes }

Durations == {14, 15, 60, 480, 481}

\* ctx.deps: business_hours and working_days (1 = Monday .. 7 = Sunday)
Policies ==
    { [business_hours |-> <<9, 18>>, working_days |-> d] :
        d \in { {1, 2, 3, 4, 5}, {1, 2, 3, 4, 5, 6}, {1, 2, 3, 4, 5, 6, 7}, {2, 3} } }

\* what check_google_calendar_availability does when called: a result with
\* available true or false, an error result without 'available', or it raises
OracleOutcomes == {"available", "conflict", "error", "raise"}

MinDurationMinutes == 15
MaxDurationMinutes == 480

MinuteOfDay(dt) == dt.hour * 60 + dt.minute

\* variant: duration_minutes <= 15 or duration_minutes >= 480
DurationOutOfRangeStrict(duration_minutes) ==
    duration_minutes <= MinDurationMinutes \/ duration_minutes >= MaxDurationMinutes

\* variant: appointment_dt < business_start or appointment_dt >= business_end
OutsideHalfOpenHours(dt, deps) ==
    \/ MinuteOfDay(dt) < deps.business_hours[1] * 60
    \/ MinuteOfDay(dt) >= deps.business_hours[2] * 60

\* appointment_dt < business_start or appointment_dt > business_end
OutsideBusinessHours(dt, deps) ==
    \/ MinuteOfDay(dt) < deps.business_hours[1] * 60
    \/ MinuteOfDay(dt) > deps.business_hours[2] * 60

\* appointment_dt.weekday() >= 5 or (appointment_dt.weekday() + 1) not in working_days
NotWorkingDay(dt, deps) ==
    dt.weekday >= 5 \/ (dt.weekday + 1) \notin deps.working_days

\* duration_minutes < 15 or duration_minutes > 480
DurationOutOfRange(duration_minutes) ==
    duration_minutes < MinDurationMinutes \/ duration_minutes > MaxDurationMinutes

\* variant: not availability_result.get("available", False)
ConflictUnlessAvailable(oracle) == oracle # "available"

\* not availability_result.get("available", True)
ConflictReported(oracle) == oracle = "conflict"

ValidationFailed == [success |-> FALSE, valid |-> FALSE, error |-> "exception"]

\* variant: only the first violated rule is reported
RuleErrorFirstOnly(errors, text) == IF errors = <<>> THEN <<text>> ELSE errors

\* validation_results["errors"].append(text)
RuleError(errors, text) == Append(errors, text)

\* variant: the availability check runs whatever the rules said
OracleAlwaysConsulted(v) == TRUE

\* if validation_results["valid"]: the availability check runs
OracleConsulted(v) == v.valid

\* appointment_validator: the result, and how often the oracle was called
appointment_validator(start_time, duration_minutes, deps, oracle) ==
    IF ~start_time.iso THEN [result |-> ValidationFailed, oracle_calls |-> 0]
    ELSE
    LET v0 == [success |-> TRUE, valid |-> TRUE, warnings |-> <<>>, errors |-> <<>>,
               business_hours_valid |-> TRUE, working_day_valid |-> TRUE,
               duration_valid |-> TRUE]
        v1 == IF OutsideBusinessHours(start_time, deps)
              THEN [v0 EXCEPT !.business_hours_valid = FALSE,
                              !.errors = RuleError(@, "Orario non lavorativo"),
                              !.valid = FALSE]
              ELSE v0
        v2 == IF NotWorkingDay(start_time, deps)
              THEN [v1 EXCEPT !.working_day_valid = FALSE,
                              !.errors = RuleError(@, "Giorno non lavorativo"),
                              !.valid = FALSE]
              ELSE v1
        v3 == IF DurationOutOfRange(duration_minutes)
              THEN [v2 EXCEPT !.duration_valid = FALSE,
                              !.errors = RuleError(@, "Durata non valida"),
                              !.valid = FALSE]
              ELSE v2
    IN  IF ~OracleConsulted(v3) THEN [result |-> v3, oracle_calls |-> 0]
        ELSE IF oracle = "raise" THEN [result |-> ValidationFailed, oracle_calls |-> 1]
        ELSE IF ConflictReported(oracle)
        THEN [result |-> [v3 EXCEPT !.valid = FALSE,
                                    !.errors = Append(@, "Orario non disponibile - conflitto")],
              oracle_calls |-> 1]
        ELSE [result |-> v3, oracle_calls |-> 1]

----------------------------------------------------------------------------
(* backend/tools.py: google_calendar_operations *)

MaxBookings == 1     \* successful 'create' calls in one run

Operations == {"create", "check", "modify", "delete"}
Titles == {NoneStr, "Visita"}
ClientNames == {"", "Anna"}
ClientEmails == {NoneStr, "", "anna@x.it"}
ServiceTypes == {"", "consulenza"}

\* Monday 09:00, the slot the agent works on
SlotA == [given |-> TRUE, iso |-> TRUE, weekday |-> 0, hour |-> 9, minute |-> 0]
ToolStarts == {NoStart, BadStart, SlotA}
ToolDuration == 30
DefaultPolicy == [business_hours |-> <<9, 18>>, working_days |-> {1, 2, 3, 4, 5}]

\* the start_time string as it was passed
StartText(start_time) ==
    IF start_time = SlotA THEN "2025-01-20T09:00:00" ELSE "2025-01-20 alle nove"

\* StandaloneSimpleGoogleCalendarService.create_event returns an event ("ok"),
\* returns create_event_error_handler's result ("fail"), or raises ("raise");
\* mock_google_calendar_create_event returns an event or raises
CollabOutcomes == {"ok", "fail", "raise"}
MockOutcomes == {"ok", "raise"}

\* Python truthiness of an optional string
Truthy(x) == x # NoneStr /\ x # ""

NoEvent == [kind |-> "none"]

\* the keys a caller reads from the tool's result, absent keys as result.get gives them
ToolResult(success, error, requires_email, event_id, calendar_created, note) ==
    [success |-> success, error |-> error, requires_email |-> requires_email,
     event_id |-> event_id, calendar_created |-> calendar_created, note |-> note]

\* variant: if client_email is None
EmailIsNone(client_email) == client_email = NoneStr

\* if not client_email
EmailMissing(client_email) == ~Truthy(client_email)

\* event_title = f"{service_type} - {client_name}" if service_type else title
EventTitle(title, client_name, service_type) ==
    IF Truthy(service_type) THEN <<service_type, "-", client_name>> ELSE <<title>>

\* what a call leaves behind besides its result
Effects(result, st, create_event_calls, mock_calls, created, messages_added) ==
    [result |-> result, st |-> st, create_event_calls |-> create_event_calls,
     mock_calls |-> mock_calls, created |-> created, messages_added |-> messages_added]

\* the branch after the collaborator returned result.get("success"): the
\* appointment is logged to the session of ctx.deps, and success is returned
CreateSucceeded(st, now, session_id, event_id, title, start_time, duration_minutes, client_name, client_email, service_type, create_event_calls, mock_calls) ==
    LET event_title == EventTitle(title, client_name, service_type)
        metadata == BookingMeta(event_id, event_title, client_name, client_email, service_type,
                                StartText(start_time), duration_minutes, "calendar/render")
        logged == Truthy(session_id)
        st1 == IF logged
               THEN add_message(st, session_id, now,
                        [role |-> "system",
                         content |-> <<"Appuntamento", "creato:">> \o event_title
                                     \o <<"per", client_name, "il", StartText(start_time)>>,
                         message_type |-> "appointment_created", metadata |-> metadata])
               ELSE st
    IN  Effects(ToolResult(TRUE, NoneStr, FALSE, event_id, TRUE, NoneStr),
                st1, create_event_calls, mock_calls, TRUE, IF logged THEN 1 ELSE 0)

\* google_calendar_operations, called with the store st at time now
google_calendar_operations(st, now, session_id, operation, title, start_time, duration_minutes, client_name, client_email, service_type, collab, mock, oracle) ==
    IF operation = "create" THEN
        IF ~(Truthy(title) /\ start_time.given /\ Truthy(client_name))
        THEN Effects(ToolResult(FALSE, "Title, start_time, and client_name required", FALSE,
                                NoEvent, FALSE, NoneStr), st, 0, 0, FALSE, 0)
        ELSE IF EmailMissing(client_email)
        THEN Effects(ToolResult(FALSE, "Email del cliente OBBLIGATORIO", TRUE,
                                NoEvent, FALSE, NoneStr), st, 0, 0, FALSE, 0)
        ELSE IF ~start_time.iso
        \* datetime.fromisoformat raises: the inner except answers success
        THEN Effects(ToolResult(TRUE, NoneStr, FALSE, [kind |-> "fallback", now |-> now], TRUE,
                                "Appuntamento registrato con successo"), st, 0, 0, FALSE, 0)
        ELSE IF collab = "ok"
        THEN CreateSucceeded(st, now, session_id, [kind |-> "standalone", start |-> start_time],
                             title, start_time, duration_minutes, client_name, client_email,
                             service_type, 1, 0)
        ELSE IF collab = "fail"
        \* "If creation failed, still return success for user experience"
        THEN Effects(ToolResult(TRUE, NoneStr, FALSE, [kind |-> "local", start |-> start_time],
                                TRUE, "Evento creato localmente"), st, 1, 0, FALSE, 0)
        ELSE IF mock = "ok"
        THEN CreateSucceeded(st, now, session_id, [kind |-> "event", now |-> now],
                             title, start_time, duration_minutes, client_name, client_email,
                             service_type, 1, 1)
        ELSE Effects(ToolResult(TRUE, NoneStr, FALSE, [kind |-> "fallback", now |-> now], TRUE,
                                "Appuntamento registrato con successo"), st, 1, 1, FALSE, 0)
    ELSE IF operation = "check" THEN
        IF ~start_time.given
        THEN Effects(ToolResult(FALSE, "start_time required for check operation", FALSE,
                                NoEvent, FALSE, NoneStr), st, 0, 0, FALSE, 0)
        ELSE IF ~start_time.iso \/ oracle = "raise"
        THEN Effects(ToolResult(FALSE, "exception", FALSE, NoEvent, FALSE, NoneStr),
                     st, 0, 0, FALSE, 0)
        ELSE IF oracle = "error"
        THEN Effects(ToolResult(FALSE, "Failed to check Google Calendar availability", FALSE,
                                NoEvent, FALSE, NoneStr), st, 0, 0, FALSE, 0)
        ELSE Effects(ToolResult(TRUE, NoneStr, FALSE, NoEvent, FALSE,
                                IF oracle = "available" THEN "available" ELSE "not available"),
                     st, 0, 0, FALSE, 0)
    ELSE Effects(ToolResult(FALSE, "Operation not yet implemented", FALSE, NoEvent, FALSE, NoneStr),
                 st, 0, 0, FALSE, 0)

----------------------------------------------------------------------------
(* The store's operations as steps *)

Init ==
    /\ files = [s \in SessionIds |-> NoFile]
    /\ sessions_index = [s \in SessionIds |-> NoEntry]
    /\ clock = 0
    /\ appended = [s \in SessionIds |-> <<>>]
    /\ onlyAppends = [s \in SessionIds |-> TRUE]
    /\ proc = [p \in Procs |-> [pc |-> "idle"]]
    /\ acked = {}
    /\ toolCall = [tool |-> "none"]
    /\ validated = {}
    /\ bookings = [s \in SessionIds \cup {NoneStr} |-> 0]
    /\ schedule_agent = NoneStr
    /\ turn = [pc |-> "startup"]

CreateSession(s) ==
    LET st == create_session(store, s)
    IN  /\ files' = st.files
        /\ sessions_index' = st.index
        /\ onlyAppends' = [onlyAppends EXCEPT ![s] = FALSE]
        /\ UNCHANGED <<clock, appended, concVars, toolVars, chatVars>>

AddMessage(s, in) ==
    /\ clock < MaxClock
    /\ LET st == add_message(store, s, clock + 1, in)
       IN  /\ files' = st.files
           /\ sessions_index' = st.index
    /\ clock' = clock + 1
    /\ appended' = [appended EXCEPT ![s] = Append(@, in)]
    /\ UNCHANGED <<onlyAppends, concVars, toolVars, chatVars>>

GetHistory(s, hasLimit, limit) ==
    /\ Len(get_conversation_history(files, s, hasLimit, limit)) >= 0
    /\ UNCHANGED vars

GetRecentContext(s, message_count) ==
    /\ Len(get_recent_context(files, s, message_count)) >= 1
    /\ UNCHANGED vars

ExtractAppointmentInfo(s) ==
    /\ extract_appointment_info(files, s).exists \in BOOLEAN
    /\ UNCHANGED vars

SearchConversations(s, query, limit) ==
    /\ Len(search_conversations(files, s, query, limit)) <= limit
    /\ UNCHANGED vars

DeleteSession(s) ==
    LET st == delete_session(store, s)
    IN  /\ files' = st.files
        /\ sessions_index' = st.index
        /\ appended' = [appended EXCEPT ![s] = <<>>]
        /\ onlyAppends' = [onlyAppends EXCEPT ![s] = TRUE]
        /\ UNCHANGED <<clock, concVars, toolVars, chatVars>>

StoreNext ==
    \/ \E s \in SessionIds : CreateSession(s)
    \/ \E s \in SessionIds, in \in MsgInputs : AddMessage(s, in)
    \/ \E s \in SessionIds, hasLimit \in BOOLEAN, limit \in 0..MaxLimit :
          GetHistory(s, hasLimit, limit)
    \/ \E s \in SessionIds, message_count \in 0..MaxLimit : GetRecentContext(s, message_count)
    \/ \E s \in SessionIds : ExtractAppointmentInfo(s)
    \/ \E s \in SessionIds, query \in Queries, limit \in 0..MaxLimit :
          SearchConversations(s, query, limit)
    \/ \E s \in SessionIds : DeleteSession(s)

SpecStore == Init /\ [][StoreNext]_vars

\* the (role, content, type, metadata) of each message, without its timestamp
Inputs(messages) ==
    [i \in 1..Len(messages) |->
        [role |-> messages[i].role, content |-> messages[i].content,
         message_type |-> messages[i].message_type, metadata |-> messages[i].metadata]]

IsPrefix(a, b) == Len(a) <= Len(b) /\ SubSeq(b, 1, Len(a)) = a

StoredMessages(fs, s) == IF fs[s].exists THEN fs[s].messages ELSE <<>>

\* C5: a session's message sequence is append-only. Every step that leaves the
\* session's record in place (every step but a deleteSession of it) keeps each
\* stored message at its position with its content.
C5_AppendOnly ==
    [][\A s \in SessionIds :
          files'[s].exists => IsPrefix(StoredMessages(files, s), StoredMessages(files', s))]_vars

\* C6: N appendMessage calls on an id that had no record, and nothing else on
\* it, then getHistory(id, limit=N): exactly those N messages, in order, with
\* their role, content, type and metadata.
C6_RoundTrip ==
    \A s \in SessionIds :
        onlyAppends[s] =>
            Inputs(get_conversation_history(files, s, TRUE, Len(appended[s]))) = appended[s]

C6_Witness ==
    \E s \in SessionIds :
        /\ onlyAppends[s]
        /\ Len(appended[s]) >= 2
        /\ appended[s][1] # appended[s][2]
        /\ files[s].exists

----------------------------------------------------------------------------
(* add_message under interleaving: get_session, create_session and save_session
   are separate file operations, and nothing locks the record between them *)

InFlight(p) == proc[p].pc \in {"create", "append"}

\* session = self.get_session(session_id)
ConcRead(p, s, in) ==
    /\ proc[p].pc = "idle"
    /\ clock + Cardinality({q \in Procs : InFlight(q)}) < MaxClock
    /\ LET session == get_session(files, s)
           others == { q \in Procs \ {p} : InFlight(q) /\ proc[q].session_id = s }
       IN  proc' = [q \in Procs |->
                      IF q = p
                      THEN [pc |-> IF SessionMissing(session) THEN "create" ELSE "append",
                            session_id |-> s, in |-> in, session |-> session,
                            overlapped |-> others # {}]
                      ELSE IF q \in others THEN [proc[q] EXCEPT !.overlapped = TRUE]
                      ELSE proc[q]]
    /\ UNCHANGED <<files, sessions_index, clock, appended, onlyAppends, acked, toolVars, chatVars>>

\* session = self.create_session(session_id)
ConcCreate(p) ==
    /\ proc[p].pc = "create"
    /\ LET st == create_session(store, proc[p].session_id)
       IN  /\ files' = st.files
           /\ sessions_index' = st.index
    /\ proc' = [proc EXCEPT ![p].pc = "append",
                            ![p].session = ConversationSession(proc[p].session_id, <<>>)]
    /\ UNCHANGED <<clock, appended, onlyAppends, acked, toolVars, chatVars>>

\* session.messages.append(message); self.save_session(session); return True
ConcAppend(p) ==
    /\ proc[p].pc = "append"
    /\ LET message == ConversationMessage(clock + 1, proc[p].in)
           session == [proc[p].session EXCEPT !.messages = AppendMessage(@, message)]
           st == save_session(store, session)
       IN  /\ files' = st.files
           /\ sessions_index' = st.index
           /\ acked' = acked \cup {[session_id |-> proc[p].session_id, message |-> message,
                                     overlapped |-> proc[p].overlapped]}
    /\ clock' = clock + 1
    /\ proc' = [proc EXCEPT ![p] = [pc |-> "idle"]]
    /\ UNCHANGED <<appended, onlyAppends, toolVars, chatVars>>

ConcNext ==
    \/ \E p \in Procs, s \in SessionIds, in \in MsgInputs : ConcRead(p, s, in)
    \/ \E p \in Procs : ConcCreate(p)
    \/ \E p \in Procs : ConcAppend(p)

SpecConc == Init /\ [][ConcNext]_vars

----------------------------------------------------------------------------
(* One appointment_validator call *)

Validate(start_time, duration_minutes, deps, oracle) ==
    LET out == appointment_validator(start_time, duration_minutes, deps, oracle)
    IN  toolCall' = [tool |-> "appointment_validator", start_time |-> start_time,
                    duration_minutes |-> duration_minutes, deps |-> deps,
                    oracle |-> oracle, oracle_calls |-> out.oracle_calls,
                    result |-> out.result]

\* one call, on any arguments
ValidateNext ==
    \E start_time \in StartTimes \cup {BadStart}, duration_minutes \in Durations,
       deps \in Policies, oracle \in OracleOutcomes :
        /\ toolCall.tool = "none"
        /\ Validate(start_time, duration_minutes, deps, oracle)
        /\ UNCHANGED <<storeVars, concVars, validated, bookings, chatVars>>

SpecValidate == Init /\ [][ValidateNext]_vars

Validated == toolCall.tool = "appointment_validator"

\* the three rules as the policy states them, on the call's arguments
RulesPass(call) ==
    /\ call.start_time.iso
    /\ ~OutsideBusinessHours(call.start_time, call.deps)
    /\ ~NotWorkingDay(call.start_time, call.deps)
    /\ ~DurationOutOfRange(call.duration_minutes)

\* C1: in every result with success = true, valid is true iff the three
\* boolean fields are true and the oracle reported no conflict.
C1_ValidIff ==
    (Validated /\ toolCall.result.success) =>
        (toolCall.result.valid <=>
            /\ toolCall.result.business_hours_valid
            /\ toolCall.result.working_day_valid
            /\ toolCall.result.duration_valid
            /\ ~(toolCall.oracle_calls > 0 /\ toolCall.oracle = "conflict"))

C1_Witness ==
    /\ Validated /\ toolCall.result.success
    /\ toolCall.result.business_hours_valid
    /\ toolCall.result.working_day_valid
    /\ toolCall.result.duration_valid
    /\ toolCall.oracle_calls = 1 /\ toolCall.oracle = "conflict"
    /\ ~toolCall.result.valid

Stored(s, message) ==
    \E i \in 1..Len(StoredMessages(files, s)) : StoredMessages(files, s)[i] = message

\* C9: an acknowledged message is missing from its session's history only if
\* another add_message on the same session was between its read and its write
\* at the same time; and every stored message is one that was appended to that
\* session, as it was built.
C9_LostOnlyByOverlap ==
    /\ \A a \in acked : ~Stored(a.session_id, a.message) => a.overlapped
    /\ \A s \in SessionIds : \A i \in 1..Len(StoredMessages(files, s)) :
          \E a \in acked : a.session_id = s /\ a.message = StoredMessages(files, s)[i]

C9_Witness ==
    \E a \in acked, b \in acked :
        /\ a.overlapped /\ ~Stored(a.session_id, a.message)
        /\ ~b.overlapped /\ Stored(b.session_id, b.message)
        /\ b.session_id # a.session_id

----------------------------------------------------------------------------
(* The agent's tool calls, in whatever order the model asks for them *)

TotalBookings == bookings[NoneStr] + bookings["s1"] + bookings["s2"]

\* whether the call gets as far as the booking collaborator / the oracle
ReachesCollaborator(operation, title, start_time, client_name, client_email) ==
    /\ operation = "create"
    /\ Truthy(title) /\ start_time.given /\ Truthy(client_name)
    /\ ~EmailMissing(client_email)
    /\ start_time.iso
ReachesOracle(operation, start_time) ==
    operation = "check" /\ start_time.given /\ start_time.iso

CalendarOperation(session_id, operation, title, start_time, client_name, client_email, service_type, collab, mock, oracle) ==
    LET out == google_calendar_operations(store, clock + 1, session_id, operation, title,
                   start_time, ToolDuration, client_name, client_email, service_type,
                   collab, mock, oracle)
    IN  /\ TotalBookings < MaxBookings
        /\ clock + out.messages_added <= MaxClock
        /\ files' = out.st.files
        /\ sessions_index' = out.st.index
        /\ clock' = clock + out.messages_added
        /\ appended' = IF out.messages_added = 1
                       THEN [appended EXCEPT ![session_id] =
                               Append(@, Inputs(out.st.files[session_id].messages)
                                            [Len(out.st.files[session_id].messages)])]
                       ELSE appended
        /\ toolCall' = [tool |-> "google_calendar_operations", operation |-> operation,
                        session_id |-> session_id, start_time |-> start_time,
                        duration_minutes |-> ToolDuration,
                        has_required |-> Truthy(title) /\ start_time.given /\ Truthy(client_name),
                        client_email |-> client_email, collab |-> collab, mock |-> mock,
                        create_event_calls |-> out.create_event_calls,
                        mock_calls |-> out.mock_calls, created |-> out.created,
                        messages_added |-> out.messages_added,
                        store_unchanged |-> out.st = store,
                        result |-> out.result]
        /\ bookings' = IF operation = "create" /\ out.result.success
                       THEN [bookings EXCEPT ![session_id] = @ + 1] ELSE bookings
        /\ UNCHANGED <<onlyAppends, concVars, validated, chatVars>>

AgentCalendar ==
    \E session_id \in SessionIds \cup {NoneStr}, operation \in Operations,
       title \in Titles, start_time \in ToolStarts, client_name \in ClientNames,
       client_email \in ClientEmails :
      \E service_type \in IF ReachesCollaborator(operation, title, start_time, client_name, client_email)
                           THEN ServiceTypes ELSE {""},
         collab \in IF ReachesCollaborator(operation, title, start_time, client_name, client_email)
                     THEN CollabOutcomes ELSE {"ok"},
         oracle \in IF ReachesOracle(operation, start_time) THEN OracleOutcomes ELSE {"available"} :
        \E mock \in IF collab = "raise" THEN MockOutcomes ELSE {"ok"} :
          /\ operation # "create" =>
                title = NoneStr /\ client_name = "" /\ client_email = NoneStr
          /\ CalendarOperation(session_id, operation, title, start_time, client_name,
                               client_email, service_type, collab, mock, oracle)

AgentValidates ==
    \E start_time \in {BadStart, SlotA}, oracle \in OracleOutcomes :
        /\ Validate(start_time, ToolDuration, DefaultPolicy, oracle)
        /\ validated' = IF toolCall'.result.valid
                        THEN validated \cup {<<start_time, ToolDuration>>} ELSE validated
        /\ UNCHANGED <<storeVars, concVars, bookings, chatVars>>

ToolsNext == AgentCalendar \/ AgentValidates

SpecTools == Init /\ [][ToolsNext]_vars

CreateCalled == toolCall.tool = "google_calendar_operations" /\ toolCall.operation = "create"

C3_BookingOnlyAfterValidation ==
    (CreateCalled /\ toolCall.create_event_calls > 0) =>
        <<toolCall.start_time, toolCall.duration_minutes>> \in validated

\* C4: when the booking collaborator fails during 'create' (create_event returns
\* success = false, or the creation step raises) the result reports the failure;
\* success = true with calendar_created = true is returned only when an event
\* was actually created.
C4_BookingFailureReported ==
    CreateCalled =>
        /\ (toolCall.create_event_calls > 0 /\ ~toolCall.created) =>
              (~toolCall.result.success /\ toolCall.result.error # NoneStr)
        /\ (toolCall.result.success /\ toolCall.result.calendar_created) => toolCall.created

\* C8: a 'create' carrying session id s that returned success = true has
\* appended one appointment_created message with that booking's metadata to s:
\* extractFacts(s) gives it as last_appointment, and appointment_count is the
\* number of successful bookings of the session.
C8_BookingLogged ==
    (CreateCalled /\ toolCall.session_id \in SessionIds /\ toolCall.result.success) =>
        LET facts == extract_appointment_info(files, toolCall.session_id)
        IN  /\ toolCall.messages_added = 1
            /\ facts.exists
            /\ ~facts.raised
            /\ facts.appointment_count = bookings[toolCall.session_id]
            /\ facts.last_appointment.exists
            /\ facts.last_appointment.event_id = toolCall.result.event_id
            /\ facts.last_appointment.start_time = StartText(toolCall.start_time)
            /\ facts.last_appointment.duration_minutes = toolCall.duration_minutes

----------------------------------------------------------------------------
(* agents/schedule_ai_agent/main.py: the chat endpoint *)

ContextMessages == 10

Streams == {TRUE, FALSE}

\* what the user may write; the last is the text process_message looks for
ChatMessages == Contents \cup { <<"Nessuna", "conversazione", "precedente">> }

\* one process_message call: which of its steps raises (loading the context,
\* create_dependencies, agent.run), and str(result) of the run if it is reached
AgentOutcomes ==
    { [fault |-> "none", wrapped |-> TRUE,  text |-> <<"Buongiorno!">>],
      [fault |-> "none", wrapped |-> FALSE, text |-> <<>>],
      [fault |-> "context", wrapped |-> TRUE,  text |-> <<"Buongiorno!">>],
      [fault |-> "dependencies", wrapped |-> FALSE, text |-> <<>>],
      [fault |-> "run", wrapped |-> FALSE, text |-> <<>>] }

\* f"Mi dispiace, si è verificato un errore: {str(e)}"
ErrorReply ==
    [wrapped |-> FALSE, text |-> <<"Mi", "dispiace,", "si", "e'", "verificato", "un", "errore:">>]

\* self.dependencies, and create_dependencies(session_id=...) for one request
AgentDependencies == [policy |-> DefaultPolicy, session_id |-> NoneStr]
RuntimeDependencies(session_id) == [policy |-> DefaultPolicy, session_id |-> session_id]

\* "Nessuna conversazione precedente" in context
SentinelIn(context) ==
    \E i \in 1..Len(context) :
        \/ context[i].line = "Nessuna conversazione precedente."
        \/ /\ context[i].line = "message"
           /\ Contains(context[i].content, <<"Nessuna", "conversazione", "precedente">>)

\* variant: a failing agent.run escapes the call
PropagatesRunFault(fault) == fault = "run"

\* the whole body sits in try / except Exception
Propagates(fault) == FALSE

NoRun == [called |-> FALSE]

\* the text inside AgentRunResult(output='...'), or the text itself
extract_clean_response(agent_response) ==
    IF ~agent_response.wrapped /\ agent_response.text = <<>> THEN <<"Risposta", "non", "disponibile.">>
    ELSE agent_response.text

get_mock_response(message) ==
    LET message_lower == LowerText(message)
    IN  IF Contains(message_lower, <<"ciao">>) \/ Contains(message_lower, <<"buongiorno">>)
        THEN <<"Buongiorno!", "Sono", "ScheduleAI">>
        ELSE IF Contains(message_lower, <<"appuntamento">>) \/ Contains(message_lower, <<"prenotare">>)
        THEN <<"Certamente!">>
        ELSE <<"Sono", "ScheduleAI">>

\* ScheduleAIAgent.process_message: the recent context is read and put before
\* the message, the model runs, and whatever happens comes back as a string
process_message(fs, message, session_id, outcome) ==
    LET context == get_recent_context(fs, session_id, ContextMessages)
        enhanced_message ==
            IF outcome.fault # "context" /\ ~SentinelIn(context)
            THEN <<context, message>> ELSE <<message>>
        deps == RuntimeDependencies(session_id)
    IN  [called |-> TRUE, fault |-> outcome.fault, input |-> enhanced_message,
         deps |-> deps, raised |-> Propagates(outcome.fault),
         response |-> IF outcome.fault \in {"dependencies", "run"} THEN ErrorReply
                      ELSE [wrapped |-> outcome.wrapped, text |-> outcome.text],
         dependencies |-> AgentDependencies]

TextInput(role, content) ==
    [role |-> role, content |-> content, message_type |-> "text", metadata |-> NoMeta]

Turn(pc, session_id, message, stream, response, agent_ready) ==
    [pc |-> pc, session_id |-> session_id, message |-> message, stream |-> stream,
     response |-> response, agent_ready |-> agent_ready, run |-> NoRun]

\* lifespan: the agent is built and tried once; on any failure it stays None
Lifespan ==
    /\ turn.pc = "startup"
    /\ \E built \in {NoneStr, "ScheduleAIAgent"} : schedule_agent' = built
    /\ turn' = [pc |-> "idle"]
    /\ UNCHANGED <<storeVars, concVars, toolVars>>

\* chat_endpoint, up to the point where it awaits the agent
ChatEndpoint(session_id, message, stream) ==
    /\ turn.pc \in {"idle", "done"}
    /\ IF schedule_agent = NoneStr
       THEN /\ turn' = Turn("done", session_id, message, stream, get_mock_response(message), FALSE)
            /\ UNCHANGED <<storeVars, schedule_agent>>
       ELSE /\ clock + (IF stream THEN 2 ELSE 1) <= MaxClock
            /\ LET st == add_message(store, session_id, clock + 1, TextInput("user", message))
               IN  /\ files' = st.files
                   /\ sessions_index' = st.index
            /\ clock' = clock + 1
            /\ appended' = [appended EXCEPT ![session_id] = Append(@, TextInput("user", message))]
            /\ turn' = Turn(IF stream THEN "streaming" ELSE "processing",
                            session_id, message, stream, <<>>, TRUE)
            /\ UNCHANGED <<onlyAppends, schedule_agent>>
    /\ UNCHANGED <<concVars, toolVars>>

\* chat_endpoint's non-streaming branch: the reply is returned in the body
NonStreamingResponse(outcome) ==
    /\ turn.pc = "processing"
    /\ LET run == process_message(files, turn.message, turn.session_id, outcome)
           clean_response == IF run.raised THEN <<"HTTP", "500">>
                             ELSE extract_clean_response(run.response)
       IN  turn' = [turn EXCEPT !.pc = "done", !.response = clean_response, !.run = run]
    /\ UNCHANGED <<storeVars, concVars, toolVars, schedule_agent>>

\* generate_streaming_response: the reply is saved, then streamed
GenerateStreamingResponse(outcome) ==
    /\ turn.pc = "streaming"
    /\ clock < MaxClock
    /\ LET run == process_message(files, turn.message, turn.session_id, outcome)
           clean_response == IF run.raised THEN <<"error">>
                             ELSE extract_clean_response(run.response)
           st == IF run.raised THEN store
                 ELSE add_message(store, turn.session_id, clock + 1,
                                  TextInput("assistant", clean_response))
       IN  /\ files' = st.files
           /\ sessions_index' = st.index
           /\ appended' = IF run.raised THEN appended
                          ELSE [appended EXCEPT ![turn.session_id] =
                                  Append(@, TextInput("assistant", clean_response))]
           /\ clock' = IF run.raised THEN clock ELSE clock + 1
           /\ turn' = [turn EXCEPT !.pc = "done", !.response = clean_response, !.run = run]
    /\ UNCHANGED <<onlyAppends, concVars, toolVars, schedule_agent>>

ChatNext ==
    \/ Lifespan
    \/ \E s \in SessionIds, message \in ChatMessages, stream \in Streams :
          ChatEndpoint(s, message, stream)
    \/ \E outcome \in AgentOutcomes : NonStreamingResponse(outcome)
    \/ \E outcome \in AgentOutcomes : GenerateStreamingResponse(outcome)

SpecChat == Init /\ [][ChatNext]_vars

\* C7: when the chat endpoint has answered a turn, on whichever branch, the
\* session's history ends with the user's inbound message followed by the
\* assistant's final reply.
C7_TurnRecorded ==
    turn.pc = "done" =>
        LET messages == StoredMessages(files, turn.session_id)
            n == Len(messages)
        IN  /\ n >= 2
            /\ Inputs(messages)[n - 1] = TextInput("user", turn.message)
            /\ Inputs(messages)[n] = TextInput("assistant", turn.response)

----------------------------------------------------------------------------
(* appointment_validator: the rules one by one *)

Occurrences(errors, text) == Cardinality({i \in 1..Len(errors) : errors[i] = text})

FalseFlags(result) ==
    (IF result.business_hours_valid THEN 0 ELSE 1)
    + (IF result.working_day_valid THEN 0 ELSE 1)
    + (IF result.duration_valid THEN 0 ELSE 1)

ConflictText == "Orario non disponibile - conflitto"

\* C11: the oracle answers with an error result (success = false, no
\* 'available' field) for a request that passes the three rules: the result
\* has success, valid and the three boolean fields true and no errors.
C11_OracleErrorIsUnknown ==
    (Validated /\ RulesPass(toolCall) /\ toolCall.oracle = "error") =>
        /\ toolCall.result.success
        /\ toolCall.result.valid
        /\ toolCall.result.business_hours_valid
        /\ toolCall.result.working_day_valid
        /\ toolCall.result.duration_valid
        /\ toolCall.result.errors = <<>>

C11_Witness ==
    /\ Validated /\ RulesPass(toolCall) /\ toolCall.oracle = "error"
    /\ toolCall.oracle_calls = 1
    /\ toolCall.result.valid

\* C12: the oracle is called at most once, and only when the three rule checks
\* passed; a conflict it reports clears valid and adds one conflict error, the
\* three boolean fields staying true.
C12_OracleOnlyAfterRules ==
    Validated =>
        /\ toolCall.oracle_calls <= 1
        /\ toolCall.oracle_calls > 0 => RulesPass(toolCall)
        /\ (toolCall.oracle_calls = 1 /\ toolCall.oracle = "conflict") =>
              /\ ~toolCall.result.valid
              /\ Occurrences(toolCall.result.errors, ConflictText) = 1
              /\ Len(toolCall.result.errors) = 1
              /\ toolCall.result.business_hours_valid
              /\ toolCall.result.working_day_valid
              /\ toolCall.result.duration_valid

C12_Witness ==
    /\ Validated /\ toolCall.oracle_calls = 1 /\ toolCall.oracle = "conflict"
    /\ ~toolCall.result.valid
    /\ toolCall.result.errors = <<ConflictText>>

C15_WorkingDayMembership ==
    (Validated /\ toolCall.result.success) =>
        (toolCall.result.working_day_valid <=>
            (toolCall.start_time.weekday + 1) \in toolCall.deps.working_days)

\* C16: duration_valid is true iff 15 <= duration_minutes <= 480, and a
\* violation adds the error 'Durata non valida'.
C16_DurationRange ==
    (Validated /\ toolCall.result.success) =>
        /\ toolCall.result.duration_valid <=>
              (15 <= toolCall.duration_minutes /\ toolCall.duration_minutes <= 480)
        /\ ~toolCall.result.duration_valid =>
              Occurrences(toolCall.result.errors, "Durata non valida") = 1

C16_Witness ==
    /\ Validated /\ toolCall.result.success
    /\ toolCall.duration_minutes = 481
    /\ ~toolCall.result.duration_valid
    /\ Occurrences(toolCall.result.errors, "Durata non valida") = 1

----------------------------------------------------------------------------
(* backend/tools.py: parse_italian_datetime *)

\* A phrase is its words in order. The accents of the weekday names are left
\* out of the spelling; the reference date is day 0 and has weekday r
\* (Monday = 0), and a resolved date is a number of days after it.
WeekdayNames == <<"lunedi", "martedi", "mercoledi", "giovedi", "venerdi", "sabato", "domenica">>
RefWeekdays == 0..6

DateWords ==
    { <<>>, <<"oggi">>, <<"domani">>, <<"dopodomani">> }
    \cup { <<WeekdayNames[i]>> : i \in 1..7 }
    \cup { <<WeekdayNames[i], "prossimo">> : i \in 1..7 }
TimeWords ==
    { <<>>, <<"alle", "15:30">>, <<"alle", "15", "e", "30">>, <<"ore", "14:30">>, <<"14:30">>,
      <<"alle", "nove">> }
PeriodWords == { <<>>, <<"mattina">>, <<"pomeriggio">>, <<"sera">> }
Phrases == { d \o t \o p : d \in DateWords, t \in TimeWords, p \in PeriodWords }

\* phrases whose digits match a time pattern without being a time of day
OutOfRangePhrases == { <<"domani", "alle", "25:00">>, <<"25:00">> }

\* the terms that occur inside a word as substrings
InsideWord(word) == IF word = "dopodomani" THEN {"dopodomani", "domani"} ELSE {word}

\* term in text_lower, for a term of one or more words
TermIn(term, text_lower) ==
    \E i \in 0..Len(text_lower) :
        /\ i + Len(term) <= Len(text_lower)
        /\ \A j \in 1..Len(term) : term[j] \in InsideWord(text_lower[i + j])

\* variant: (t - weekday + 7) % 7, today included
SameWeekOrToday(t, r) == (t - r + 7) % 7

\* (t - ref_date.weekday() + 7) % 7 or 7
SameWeek(t, r) == IF (t - r + 7) % 7 = 0 THEN 7 ELSE (t - r + 7) % 7

\* date_patterns, in insertion order
date_patterns(r) ==
    << [term |-> <<"oggi">>, days |-> 0],
       [term |-> <<"domani">>, days |-> 1],
       [term |-> <<"dopodomani">>, days |-> 2] >>
    \o [i \in 1..7 |-> [term |-> <<WeekdayNames[i]>>, days |-> SameWeek(i - 1, r)]]

\* the "next week" loop subtracts the reference weekday from the day's name,
\* which raises TypeError as soon as one of its five terms is in the text
NextWeekRaises(text_lower) ==
    \E i \in 1..5 : TermIn(<<WeekdayNames[i], "prossimo">>, text_lower)

\* for italian_term, date_offset in date_patterns.items(): first match, else ref_date
RECURSIVE FirstDateMatch(_, _)
FirstDateMatch(patterns, text_lower) ==
    IF patterns = <<>> THEN 0
    ELSE IF TermIn(Head(patterns).term, text_lower) THEN Head(patterns).days
    ELSE FirstDateMatch(Tail(patterns), text_lower)

\* \d{1,2}:\d{2} and \d{1,2}, \d{2} on the words of the model
IsClock(word) == word \in {"15:30", "14:30", "25:00"}
ClockOf(word) ==
    IF word = "15:30" THEN <<15, 30>> ELSE IF word = "14:30" THEN <<14, 30>> ELSE <<25, 0>>
IsNumber(word) == word \in {"15", "30"}
NumberOf(word) == IF word = "15" THEN 15 ELSE 30

NoMatch == <<>>

\* re.search: the leftmost match of one pattern
RECURSIVE SearchAlleClock(_, _)
SearchAlleClock(text, i) ==
    IF i + 1 > Len(text) THEN NoMatch
    ELSE IF text[i] = "alle" /\ IsClock(text[i + 1]) THEN ClockOf(text[i + 1])
    ELSE SearchAlleClock(text, i + 1)

RECURSIVE SearchAlleE(_, _)
SearchAlleE(text, i) ==
    IF i + 3 > Len(text) THEN NoMatch
    ELSE IF /\ text[i] = "alle" /\ IsNumber(text[i + 1])
            /\ text[i + 2] = "e" /\ IsNumber(text[i + 3])
    THEN <<NumberOf(text[i + 1]), NumberOf(text[i + 3])>>
    ELSE SearchAlleE(text, i + 1)

RECURSIVE SearchOreClock(_, _)
SearchOreClock(text, i) ==
    IF i + 1 > Len(text) THEN NoMatch
    ELSE IF text[i] = "ore" /\ IsClock(text[i + 1]) THEN ClockOf(text[i + 1])
    ELSE SearchOreClock(text, i + 1)

RECURSIVE SearchClock(_, _)
SearchClock(text, i) ==
    IF i > Len(text) THEN NoMatch
    ELSE IF IsClock(text[i]) THEN ClockOf(text[i])
    ELSE SearchClock(text, i + 1)

DefaultTime == <<10, 0>>

\* for pattern in time_patterns: the first pattern that matches, else "10:00"
ExplicitTime(text) ==
    IF SearchAlleClock(text, 1) # NoMatch THEN SearchAlleClock(text, 1)
    ELSE IF SearchAlleE(text, 1) # NoMatch THEN SearchAlleE(text, 1)
    ELSE IF SearchOreClock(text, 1) # NoMatch THEN SearchOreClock(text, 1)
    ELSE IF SearchClock(text, 1) # NoMatch THEN SearchClock(text, 1)
    ELSE DefaultTime

\* "mattina" / "pomeriggio" / "sera" in text_lower and "alle" not in text_lower
PeriodTime(text, text_lower, parsed_time) ==
    IF TermIn(<<"mattina">>, text_lower) /\ ~TermIn(<<"alle">>, text_lower) THEN <<9, 0>>
    ELSE IF TermIn(<<"pomeriggio">>, text_lower) /\ ~TermIn(<<"alle">>, text_lower) THEN <<15, 0>>
    ELSE IF TermIn(<<"sera">>, text_lower) /\ ~TermIn(<<"alle">>, text_lower) THEN <<18, 0>>
    ELSE parsed_time

ParseFailed(error) == [success |-> FALSE, error |-> error]

parse_italian_datetime(text, r) ==
    LET text_lower == LowerText(text)
        parsed_date == FirstDateMatch(date_patterns(r), text_lower)
        parsed_time == PeriodTime(text, text_lower, ExplicitTime(text))
    IN  IF NextWeekRaises(text_lower) THEN ParseFailed("TypeError")
        ELSE IF parsed_time[1] > 23 \/ parsed_time[2] > 59 THEN ParseFailed("ValueError")
        ELSE [success |-> TRUE, date |-> parsed_date, weekday |-> (r + parsed_date) % 7,
              time |-> parsed_time, confidence |-> 85]

\* reference_date absent (now) or an ISO string: a day with weekday r
ParseItalianDatetime(text, r) ==
    /\ toolCall.tool = "none"
    /\ toolCall' = [tool |-> "parse_italian_datetime", text |-> text, ref_ok |-> TRUE,
                    ref_weekday |-> r, result |-> parse_italian_datetime(text, r)]
    /\ UNCHANGED <<storeVars, concVars, validated, bookings, chatVars>>

\* reference_date is a string datetime.fromisoformat raises on
ParseBadReference(text) ==
    /\ toolCall.tool = "none"
    /\ toolCall' = [tool |-> "parse_italian_datetime", text |-> text, ref_ok |-> FALSE,
                    ref_weekday |-> 0, result |-> ParseFailed("ValueError")]
    /\ UNCHANGED <<storeVars, concVars, validated, bookings, chatVars>>

ParseNext ==
    \/ \E text \in Phrases \cup OutOfRangePhrases, r \in RefWeekdays : ParseItalianDatetime(text, r)
    \/ \E text \in Phrases \cup OutOfRangePhrases : ParseBadReference(text)

SpecParse == Init /\ [][ParseNext]_vars

Parsed == toolCall.tool = "parse_italian_datetime"

HasWord(text, word) == \E i \in 1..Len(text) : text[i] = word

HasRelativeDay(text) ==
    HasWord(text, "oggi") \/ HasWord(text, "domani") \/ HasWord(text, "dopodomani")

\* C17: the only date keyword of the phrase is the plain name of weekday t, the
\* reference weekday is r: the date is the reference date + k days with
\* k = (t - r + 7) mod 7, or 7 when that is 0; so 1 <= k <= 7, the date falls
\* on weekday t and is not the reference day.
C17_PlainWeekday ==
    \A t \in 0..6 :
        (Parsed /\ toolCall.ref_ok /\ HasWord(toolCall.text, WeekdayNames[t + 1])
                /\ ~HasWord(toolCall.text, "prossimo") /\ ~HasRelativeDay(toolCall.text)) =>
            LET k == IF (t - toolCall.ref_weekday + 7) % 7 = 0 THEN 7
                     ELSE (t - toolCall.ref_weekday + 7) % 7
            IN  /\ toolCall.result.success
                /\ toolCall.result.date = k
                /\ 1 <= toolCall.result.date /\ toolCall.result.date <= 7
                /\ toolCall.result.weekday = t

C17_Witness ==
    /\ Parsed /\ toolCall.text = <<"giovedi", "alle", "15:30">>
    /\ toolCall.ref_weekday = 3
    /\ toolCall.result.success
    /\ toolCall.result.date = 7

\* C18: a phrase with '<weekday> prossimo' is parsed with success, to the
\* reference date + ((t - r + 7) mod 7) + 7 days.
C18_NextWeekday ==
    \A t \in 0..6 :
        (Parsed /\ toolCall.ref_ok /\ HasWord(toolCall.text, WeekdayNames[t + 1])
                /\ HasWord(toolCall.text, "prossimo")) =>
            /\ toolCall.result.success
            /\ toolCall.result.date = ((t - toolCall.ref_weekday + 7) % 7) + 7

\* C19: 'oggi' resolves to the reference date, 'domani' to the day after it,
\* 'dopodomani' to two days after it.
C19_RelativeDays ==
    (Parsed /\ toolCall.result.success) =>
        /\ HasWord(toolCall.text, "oggi") => toolCall.result.date = 0
        /\ HasWord(toolCall.text, "domani") => toolCall.result.date = 1
        /\ HasWord(toolCall.text, "dopodomani") => toolCall.result.date = 2

\* the clock time written in the phrase, in any of the accepted forms
WrittenTime(text) ==
    IF HasWord(text, "15:30") THEN <<15, 30>>
    ELSE IF HasWord(text, "14:30") THEN <<14, 30>>
    ELSE IF HasWord(text, "e") THEN <<15, 30>>
    ELSE NoMatch

\* C20: the time is the clock time written in the phrase if there is one;
\* otherwise 09:00 / 15:00 / 18:00 for mattina / pomeriggio / sera; otherwise
\* 10:00. A period word never replaces a written clock time.
C20_TimeResolution ==
    (Parsed /\ toolCall.result.success) =>
        toolCall.result.time =
            IF WrittenTime(toolCall.text) # NoMatch THEN WrittenTime(toolCall.text)
            ELSE IF HasWord(toolCall.text, "mattina") THEN <<9, 0>>
            ELSE IF HasWord(toolCall.text, "pomeriggio") THEN <<15, 0>>
            ELSE IF HasWord(toolCall.text, "sera") THEN <<18, 0>>
            ELSE <<10, 0>>

\* C21: with an absent or well-formed reference instant parse_italian_datetime
\* succeeds on every phrase, with confidence 0.85, and resolves to the
\* reference date at 10:00 when the phrase has no date keyword.
C21_FailsOnlyOnBadReference ==
    (Parsed /\ toolCall.ref_ok) =>
        /\ toolCall.result.success
        /\ toolCall.result.confidence = 85
        /\ toolCall.text = <<>> => (toolCall.result.date = 0 /\ toolCall.result.time = <<10, 0>>)

----------------------------------------------------------------------------
(* backend/tools.py: extract_service_type *)

\* variant: the generic 'consulenza' entry comes first
GenericFirstPatterns ==
    << [pattern |-> <<"consulenza">>, service |-> "consulenza", duration |-> 60],
       [pattern |-> <<"consulenza", "fiscale">>, service |-> "consulenza_fiscale", duration |-> 90],
       [pattern |-> <<"consulenza", "tributaria">>, service |-> "consulenza_fiscale", duration |-> 90],
       [pattern |-> <<"consulenza", "tax">>, service |-> "consulenza_fiscale", duration |-> 90],
       [pattern |-> <<"consulenza", "legale">>, service |-> "consulenza_legale", duration |-> 90],
       [pattern |-> <<"consultazione">>, service |-> "consulenza", duration |-> 60],
       [pattern |-> <<"riunione">>, service |-> "riunione", duration |-> 60],
       [pattern |-> <<"meeting">>, service |-> "riunione", duration |-> 60],
       [pattern |-> <<"appunto">>, service |-> "appunto", duration |-> 30],
       [pattern |-> <<"appuntamento", "breve">>, service |-> "appunto", duration |-> 30],
       [pattern |-> <<"chiarimento">>, service |-> "appunto", duration |-> 30],
       [pattern |-> <<"incontro">>, service |-> "incontro", duration |-> 45],
       [pattern |-> <<"incontro", "conoscitivo">>, service |-> "incontro", duration |-> 45],
       [pattern |-> <<"visita">>, service |-> "visita", duration |-> 60],
       [pattern |-> <<"sopralluogo">>, service |-> "visita", duration |-> 60],
       [pattern |-> <<"seduta">>, service |-> "seduta", duration |-> 50],
       [pattern |-> <<"sessione">>, service |-> "seduta", duration |-> 50],
       [pattern |-> <<"colloquio">>, service |-> "colloquio", duration |-> 30],
       [pattern |-> <<"colloquio", "informativo">>, service |-> "colloquio", duration |-> 30],
       [pattern |-> <<"colloquio", "conoscitivo">>, service |-> "colloquio", duration |-> 30],
       [pattern |-> <<"intervista">>, service |-> "intervista", duration |-> 45],
       [pattern |-> <<"intervista", "di", "lavoro">>, service |-> "intervista", duration |-> 45],
       [pattern |-> <<"intervista", "conoscitiva">>, service |-> "intervista", duration |-> 45] >>

\* service_patterns, in insertion order (a repeated key keeps its first place)
service_patterns ==
    << [pattern |-> <<"consulenza", "fiscale">>, service |-> "consulenza_fiscale", duration |-> 90],
       [pattern |-> <<"consulenza", "tributaria">>, service |-> "consulenza_fiscale", duration |-> 90],
       [pattern |-> <<"consulenza", "tax">>, service |-> "consulenza_fiscale", duration |-> 90],
       [pattern |-> <<"consulenza", "legale">>, service |-> "consulenza_legale", duration |-> 90],
       [pattern |-> <<"consulenza">>, service |-> "consulenza", duration |-> 60],
       [pattern |-> <<"consultazione">>, service |-> "consulenza", duration |-> 60],
       [pattern |-> <<"riunione">>, service |-> "riunione", duration |-> 60],
       [pattern |-> <<"meeting">>, service |-> "riunione", duration |-> 60],
       [pattern |-> <<"appunto">>, service |-> "appunto", duration |-> 30],
       [pattern |-> <<"appuntamento", "breve">>, service |-> "appunto", duration |-> 30],
       [pattern |-> <<"chiarimento">>, service |-> "appunto", duration |-> 30],
       [pattern |-> <<"incontro">>, service |-> "incontro", duration |-> 45],
       [pattern |-> <<"incontro", "conoscitivo">>, service |-> "incontro", duration |-> 45],
       [pattern |-> <<"visita">>, service |-> "visita", duration |-> 60],
       [pattern |-> <<"sopralluogo">>, service |-> "visita", duration |-> 60],
       [pattern |-> <<"seduta">>, service |-> "seduta", duration |-> 50],
       [pattern |-> <<"sessione">>, service |-> "seduta", duration |-> 50],
       [pattern |-> <<"colloquio">>, service |-> "colloquio", duration |-> 30],
       [pattern |-> <<"colloquio", "informativo">>, service |-> "colloquio", duration |-> 30],
       [pattern |-> <<"colloquio", "conoscitivo">>, service |-> "colloquio", duration |-> 30],
       [pattern |-> <<"intervista">>, service |-> "intervista", duration |-> 45],
       [pattern |-> <<"intervista", "di", "lavoro">>, service |-> "intervista", duration |-> 45],
       [pattern |-> <<"intervista", "conoscitiva">>, service |-> "intervista", duration |-> 45] >>

\* variant: "un'ora" comes before the phrases that contain it
ShortFirstDurations ==
    << [pattern |-> <<"un'ora">>, minutes |-> 60],
       [pattern |-> <<"90", "minuti">>, minutes |-> 90],
       [pattern |-> <<"un'ora", "e", "mezza">>, minutes |-> 90],
       [pattern |-> <<"un'ora", "e", "mezzo">>, minutes |-> 90],
       [pattern |-> <<"60", "minuti">>, minutes |-> 60],
       [pattern |-> <<"30", "minuti">>, minutes |-> 30],
       [pattern |-> <<"mezz'ora">>, minutes |-> 30],
       [pattern |-> <<"120", "minuti">>, minutes |-> 120],
       [pattern |-> <<"due", "ore">>, minutes |-> 120],
       [pattern |-> <<"15", "minuti">>, minutes |-> 15],
       [pattern |-> <<"un", "quarto", "d'ora">>, minutes |-> 15] >>

\* duration_patterns, in insertion order
duration_patterns ==
    << [pattern |-> <<"90", "minuti">>, minutes |-> 90],
       [pattern |-> <<"un'ora", "e", "mezza">>, minutes |-> 90],
       [pattern |-> <<"un'ora", "e", "mezzo">>, minutes |-> 90],
       [pattern |-> <<"60", "minuti">>, minutes |-> 60],
       [pattern |-> <<"un'ora">>, minutes |-> 60],
       [pattern |-> <<"30", "minuti">>, minutes |-> 30],
       [pattern |-> <<"mezz'ora">>, minutes |-> 30],
       [pattern |-> <<"120", "minuti">>, minutes |-> 120],
       [pattern |-> <<"due", "ore">>, minutes |-> 120],
       [pattern |-> <<"15", "minuti">>, minutes |-> 15],
       [pattern |-> <<"un", "quarto", "d'ora">>, minutes |-> 15] >>

ServiceWords ==
    { <<>>, <<"consulenza">>, <<"consulenza", "fiscale">>, <<"Consulenza", "legale">>,
      <<"consulenza", "tributaria">>, <<"riunione">>, <<"riunione", "di", "consulenza">>,
      <<"visita">>, <<"incontro", "conoscitivo">>, <<"colloquio">>, <<"seduta">>,
      <<"intervista", "di", "lavoro">> }
DurationWords ==
    { <<>>, <<"un'ora">>, <<"un'ora", "e", "mezza">>, <<"90", "minuti">>, <<"mezz'ora">>,
      <<"due", "ore">>, <<"15", "minuti">>, <<"un", "quarto", "d'ora">>, <<"120", "minuti">> }
ServiceTexts ==
    { a \o v \o d : a \in { <<>>, <<"vorrei">> }, v \in ServiceWords, d \in DurationWords }

NoService == [service |-> "generale", duration |-> 30]

\* for pattern, (service, default_duration) in service_patterns.items(): first match
RECURSIVE FirstService(_, _)
FirstService(patterns, text_lower) ==
    IF patterns = <<>> THEN NoService
    ELSE IF Contains(text_lower, Head(patterns).pattern)
    THEN [service |-> Head(patterns).service, duration |-> Head(patterns).duration]
    ELSE FirstService(Tail(patterns), text_lower)

\* for pattern, minutes in duration_patterns.items(): first match, else the default
RECURSIVE FirstDuration(_, _, _)
FirstDuration(patterns, text_lower, duration) ==
    IF patterns = <<>> THEN duration
    ELSE IF Contains(text_lower, Head(patterns).pattern) THEN Head(patterns).minutes
    ELSE FirstDuration(Tail(patterns), text_lower, duration)

extract_service_type(text) ==
    LET text_lower == LowerText(text)
        detected == FirstService(service_patterns, text_lower)
    IN  [service |-> detected.service,
         duration |-> FirstDuration(duration_patterns, text_lower, detected.duration)]

ExtractServiceType(text) ==
    /\ toolCall.tool = "none"
    /\ toolCall' = [tool |-> "extract_service_type", text |-> text,
                    result |-> extract_service_type(text)]
    /\ UNCHANGED <<storeVars, concVars, validated, bookings, chatVars>>

ServiceNext == \E text \in ServiceTexts : ExtractServiceType(text)

SpecService == Init /\ [][ServiceNext]_vars

ServiceExtracted == toolCall.tool = "extract_service_type"

\* the words of the phrase, lower-cased, hold the keyword
Mentions(text, keyword) == Contains(LowerText(text), keyword)

\* C22: the service is that of the first table entry whose keyword occurs in
\* the lower-cased text, 'consulenza fiscale' and 'consulenza legale' winning
\* over the generic 'consulenza'; with no keyword in the text the result is
\* ('generale', 30).
C22_FirstServiceInTableOrder ==
    ServiceExtracted =>
        /\ \A i \in 1..Len(service_patterns) :
              (/\ Mentions(toolCall.text, service_patterns[i].pattern)
               /\ \A j \in 1..(i - 1) : ~Mentions(toolCall.text, service_patterns[j].pattern))
              => toolCall.result.service = service_patterns[i].service
        /\ Mentions(toolCall.text, <<"consulenza", "fiscale">>) =>
              toolCall.result.service = "consulenza_fiscale"
        /\ Mentions(toolCall.text, <<"consulenza", "legale">>) =>
              toolCall.result.service = "consulenza_legale"
        /\ (\A i \in 1..Len(service_patterns) : ~Mentions(toolCall.text, service_patterns[i].pattern))
              => (toolCall.result.service = "generale"
                  /\ (toolCall.text \in { <<>>, <<"vorrei">> } => toolCall.result.duration = 30))

C22_Witness ==
    /\ ServiceExtracted
    /\ toolCall.text = <<"vorrei", "Consulenza", "legale">>
    /\ toolCall.result = [service |-> "consulenza_legale", duration |-> 90]

\* the default duration of a service
DefaultDuration(service) ==
    IF service = "generale" THEN 30
    ELSE LET i == CHOOSE i \in 1..Len(service_patterns) : service_patterns[i].service = service
         IN  service_patterns[i].duration

\* C23: a duration phrase in the text gives the duration, whatever the service
\* (the fallback included), the phrase that contains the others winning; with
\* no duration phrase the duration is the matched service's default.
C23_DurationOverride ==
    ServiceExtracted =>
        /\ \A i \in 1..Len(duration_patterns) :
              (/\ Mentions(toolCall.text, duration_patterns[i].pattern)
               /\ \A j \in 1..Len(duration_patterns) :
                     Mentions(toolCall.text, duration_patterns[j].pattern)
                     => Contains(duration_patterns[i].pattern, duration_patterns[j].pattern))
              => toolCall.result.duration = duration_patterns[i].minutes
        /\ (\A i \in 1..Len(duration_patterns) : ~Mentions(toolCall.text, duration_patterns[i].pattern))
              => toolCall.result.duration = DefaultDuration(toolCall.result.service)

C23_Witness ==
    /\ ServiceExtracted
    /\ toolCall.text = <<"consulenza", "un'ora", "e", "mezza">>
    /\ toolCall.result = [service |-> "consulenza", duration |-> 90]

----------------------------------------------------------------------------
(* extract_appointment_info over what users write *)

MaxFactMessages == 2     \* messages stored in one run

FactInputs ==
    { TextInput("user", <<"mi", "chiamo", "anna">>),
      TextInput("user", <<"mi", "chiamo">>),
      TextInput("user", <<"sono", "Anna">>),
      TextInput("user", <<"sono", "qui">>),
      TextInput("user", <<"sono">>),
      TextInput("user", <<"scrivimi", "a", "anna@x.it.">>),
      [role |-> "system", content |-> <<"prenotare", "una", "visita">>,
       message_type |-> "appointment_created",
       metadata |-> [exists |-> TRUE, event_id |-> "e1", operation |-> "create"]] }

TotalStored == Len(StoredMessages(files, "s1")) + Len(StoredMessages(files, "s2"))

FactsAppend(s, in) ==
    /\ TotalStored < MaxFactMessages
    /\ AddMessage(s, in)

\* one extract_appointment_info call, its result kept
ExtractFacts(s) ==
    /\ toolCall.tool = "none"
    /\ toolCall' = [tool |-> "extract_appointment_info", session_id |-> s,
                    result |-> extract_appointment_info(files, s)]
    /\ UNCHANGED <<storeVars, concVars, validated, bookings, chatVars>>

FactsNext ==
    \/ \E s \in SessionIds, in \in FactInputs : FactsAppend(s, in)
    \/ \E s \in SessionIds : ExtractFacts(s)

SpecFacts == Init /\ [][FactsNext]_vars

C27_FactsNeverRaise ==
    \A s \in SessionIds :
        files[s].exists =>
            /\ extract_appointment_info(files, s).exists
            /\ ~extract_appointment_info(files, s).raised
            /\ Inputs(StoredMessages(files, s)) \in
                  { <<TextInput("user", <<"mi", "chiamo">>)>>, <<TextInput("user", <<"sono">>)>>,
                    <<TextInput("user", <<"sono", "qui">>)>> }
               => /\ extract_appointment_info(files, s).user_name = NoneStr
                  /\ extract_appointment_info(files, s).user_email = NoneStr

----------------------------------------------------------------------------
(* process_message as the chat endpoint calls it *)

ProcessMessageStep == turn.pc \in {"processing", "streaming"} /\ turn'.pc = "done"

\* C25: process_message, called for a session whose history holds at least one
\* message, puts the rendered recent context (the last 10 messages between the
\* markers) before the raw message, whatever the stored messages say; the raw
\* message goes alone only when the history is empty.
C25_ContextPrepended ==
    [][(ProcessMessageStep /\ turn'.run.fault # "context") =>
         IF Len(StoredMessages(files, turn.session_id)) >= 1
         THEN turn'.run.input =
                <<get_recent_context(files, turn.session_id, 10), turn.message>>
         ELSE turn'.run.input = <<turn.message>>]_vars

----------------------------------------------------------------------------
(* The limit of get_conversation_history and of get_recent_context *)

\* C28: for a session with n stored messages and every k >= 0,
\* get_conversation_history(id, limit=k) is the last min(k, n) messages in
\* order (none for k = 0), and get_recent_context(id, k) renders exactly those
\* messages between the markers, or is the sentinel text when there are none.
C28_LastKMessages ==
    \A s \in SessionIds, k \in 0..MaxLimit :
        LET messages == StoredMessages(files, s)
            n == Len(messages)
            m == IF k < n THEN k ELSE n
            last == SubSeq(messages, n - m + 1, n)
        IN  /\ get_conversation_history(files, s, TRUE, k) = last
            /\ get_recent_context(files, s, k) =
                  IF last = <<>> THEN NoContext
                  ELSE <<[line |-> "=== CONTESTO CONVERSAZIONE PRECEDENTE ==="]>>
                       \o ContextLines(last)
                       \o <<[line |-> "=== FINE CONTESTO ==="]>>

----------------------------------------------------------------------------
(* The sessions index against the stored records *)

\* C30: after any sequence of create_session, add_message and delete_session
\* calls made one at a time, get_all_sessions() has an entry for exactly the
\* ids that have a stored record and each entry's message_count is the length
\* of that session's history; a delete_session(id) leaves the history of id
\* empty and id unlisted, and returns True whether or not the session existed.
C30_IndexMatchesStore ==
    /\ [](\A s \in SessionIds :
            /\ s \in get_all_sessions(sessions_index) <=> files[s].exists
            /\ files[s].exists =>
                  sessions_index[s].message_count =
                      Len(get_conversation_history(files, s, FALSE, 0))
            /\ delete_session(store, s).returns)
    /\ [][\A s \in SessionIds :
            (files[s].exists /\ ~files'[s].exists) =>
                /\ get_conversation_history(files', s, FALSE, 0) = <<>>
                /\ s \notin get_all_sessions(sessions_index')]_vars

C30_Witness ==
    /\ ~files["s1"].exists
    /\ "s1" \notin get_all_sessions(sessions_index)
    /\ clock >= 2
    /\ files["s2"].exists
    /\ sessions_index["s2"].message_count = 1
    /\ Len(files["s2"].messages) = 1

----------------------------------------------------------------------------
(* Bookings against later validations *)

\* a 'create' for start_time went through the booking collaborator and was logged
CreatedFor(start_time) ==
    \E s \in SessionIds :
        \E i \in 1..Len(StoredMessages(files, s)) :
            /\ StoredMessages(files, s)[i].message_type = "appointment_created"
            /\ StoredMessages(files, s)[i].metadata.start_time = StartText(start_time)

\* C29: no double booking. After a 'create' has succeeded for an interval, a
\* later appointment_validator call for an overlapping interval reports a
\* conflict (so no two successful creates hold overlapping intervals).
C29_NoDoubleBooking ==
    (/\ toolCall.tool = "appointment_validator"
     /\ toolCall.start_time = SlotA
     /\ CreatedFor(SlotA)) =>
        /\ ~toolCall.result.valid
        /\ Occurrences(toolCall.result.errors, ConflictText) = 1

====
